---------------------------- MODULE Spec2Model ----------------------------
(***************************************************************************)
(* Model of scriptLanguageCompare/1compare.py: add, simple, performance    *)
(* and the module body with its __main__ guard.                            *)
(*                                                                         *)
(* Two executions of the file (Runs) are stepped side by side.  Each has   *)
(* its own interpreter state; the only thing they share is the system      *)
(* wall clock that time.time() reads.  An execution is either the main     *)
(* program (__name__ = "__main__") or an import by another program.        *)
(* Program counters are source line numbers: "L12" means line 12 is the    *)
(* next line to execute.                                                   *)
(***************************************************************************)
EXTENDS Integers, Sequences, FiniteSets, TLC

\* ------------------------------------------------------------------ bounds
\* Wall-clock readings are whole seconds 0..MaxClock.
MaxClock == 3
\* An importing program calls add with operands in -MaxInt..MaxInt.
MaxInt == 2
\* Number of consecutive iterations of the empty loop body taken in one step.
Stride == 2500000

\* ------------------------------------------------------- program constants
\* range(10000000), line 13
\* (variant: a zero dropped from the bound)
LoopCount_short == 10000000 \div 10
LoopCount == 10000000
\* add(3, 4), line 8
ArgA == 3
ArgB == 4
\* exit status of a run that reaches the end of the file
ExitOK == 0
\* exit status after an unhandled exception (traceback)
ExitException == 1
\* exit status after an unhandled KeyboardInterrupt (128 + SIGINT)
ExitSigint == 130

Runs == {1, 2}
Ints == (0 - MaxInt)..MaxInt
Clock == 0..MaxClock
\* the module's name when it is imported (the file stem)
ModuleName == "1compare"
Names == {"__main__", ModuleName}
\* A Python local that is not yet bound is <<>>, a bound one is <<value>>.
None == <<>>
Some(v) == <<v>>
Val(x) == x[1]

VARIABLES
    name,        \* name[r]: __name__ of the module in execution r
    pc,          \* pc[r]: next source line of execution r
    result,      \* result[r]: local of simple()
    start_time,  \* start_time[r]: local of performance()
    end_time,    \* end_time[r]: local of performance()
    i,           \* i[r]: iterations of the for loop completed so far
    stdout,      \* stdout[r]: lines written to standard output
    exitcode,    \* exitcode[r]: exit status once the process has ended
    exc,         \* exc[r]: exception in flight, <<type, line>>
    clock,       \* the system wall clock, shared by all processes
    reads,       \* reads[r]: number of time.time() calls made
    calls,       \* calls[r]: number of calls of simple and of performance
    addlog       \* addlog[r]: last call of add, <<a, b, returned value>>

vars == <<name, pc, result, start_time, end_time, i, stdout, exitcode, exc,
          clock, reads, calls, addlog>>

\* ------------------------------------------------------------ pure helpers
Min(x, y) == IF x < y THEN x ELSE y

\* def add(a, b): return a + b
\* Python ints are unbounded: no wrap-around.  (variant: a - b)
add_sub(a, b) == a - b
add(a, b) == a + b

\* str(d) for one decimal digit
DigitStr(d) ==
    CASE d = 0 -> "0" [] d = 1 -> "1" [] d = 2 -> "2" [] d = 3 -> "3"
      [] d = 4 -> "4" [] d = 5 -> "5" [] d = 6 -> "6" [] d = 7 -> "7"
      [] d = 8 -> "8" [] d = 9 -> "9"

RECURSIVE NatStr(_)
NatStr(n) == IF n < 10 THEN DigitStr(n) ELSE NatStr(n \div 10) \o DigitStr(n % 10)

\* str(n) for an int, as print applies it to its arguments
IntStr(n) == IF n < 0 THEN "-" \o NatStr(0 - n) ELSE NatStr(n)

\* str(x) for a float x with a whole value d: repr keeps the ".0"
FloatStr(d) == IntStr(d) \o ".0"

\* print(x, y, ...): the arguments' strings joined by sep = " "
RECURSIVE Joined(_)
Joined(strs) ==
    IF Len(strs) = 1 THEN strs[1] ELSE strs[1] \o " " \o Joined(Tail(strs))

SumLabel == "The sum is:"
\* the labels of line 16, non-ASCII characters written as Python escapes
TimeLabel == "Python\\u6027\\u80fd\\u65f6\\u95f4\\uff1a"
TimeUnit == "\\u79d2"

\* print("The sum is:", result)
SumLine(v) == Joined(<<SumLabel, IntStr(v)>>)
\* print(<label>, end_time - start_time, <unit>)
TimeLine(s, e) == Joined(<<TimeLabel, FloatStr(e - s), TimeUnit>>)

\* time.time(): the current reading of the system wall clock
Time == clock

\* ------------------------------------------------------------------- Init
Init ==
    /\ name \in [Runs -> Names]
    /\ pc = [r \in Runs |-> "L18"]
    /\ result = [r \in Runs |-> None]
    /\ start_time = [r \in Runs |-> None]
    /\ end_time = [r \in Runs |-> None]
    /\ i = [r \in Runs |-> 0]
    /\ stdout = [r \in Runs |-> <<>>]
    /\ exitcode = [r \in Runs |-> None]
    /\ exc = [r \in Runs |-> None]
    /\ clock \in Clock
    /\ reads = [r \in Runs |-> 0]
    /\ calls = [r \in Runs |-> [simple |-> 0, performance |-> 0]]
    /\ addlog = [r \in Runs |-> None]

\* ---------------------------------------------------------------- actions
\* line 18: if __name__ == "__main__":
\* (variants: the guard left out; performance() called first)
Guard_always(r) ==
    /\ pc[r] = "L18"
    /\ pc' = [pc EXCEPT ![r] = "L20"]
    /\ UNCHANGED <<name, result, start_time, end_time, i, stdout, exitcode,
                   exc, clock, reads, calls, addlog>>
Guard_perf_first(r) ==
    /\ pc[r] = "L18"
    /\ pc' = [pc EXCEPT ![r] = IF name[r] = "__main__" THEN "L23" ELSE "imported"]
    /\ UNCHANGED <<name, result, start_time, end_time, i, stdout, exitcode,
                   exc, clock, reads, calls, addlog>>
Guard(r) ==
    /\ pc[r] = "L18"
    /\ pc' = [pc EXCEPT ![r] = IF name[r] = "__main__" THEN "L20" ELSE "imported"]
    /\ UNCHANGED <<name, result, start_time, end_time, i, stdout, exitcode,
                   exc, clock, reads, calls, addlog>>

\* line 20: simple()
CallSimple(r) ==
    /\ pc[r] = "L20"
    /\ calls' = [calls EXCEPT ![r].simple = @ + 1]
    /\ pc' = [pc EXCEPT ![r] = "L8"]
    /\ UNCHANGED <<name, result, start_time, end_time, i, stdout, exitcode,
                   exc, clock, reads, addlog>>

\* line 8: result = add(3, 4)
SimpleAdd(r) ==
    /\ pc[r] = "L8"
    /\ result' = [result EXCEPT ![r] = Some(add(ArgA, ArgB))]
    /\ addlog' = [addlog EXCEPT ![r] = <<ArgA, ArgB, add(ArgA, ArgB)>>]
    /\ pc' = [pc EXCEPT ![r] = "L9"]
    /\ UNCHANGED <<name, start_time, end_time, i, stdout, exitcode, exc,
                   clock, reads, calls>>

\* line 9: print("The sum is:", result); simple returns to line 23
\* (variant: the printed value drifts with the clock)
SimplePrint_clock(r) ==
    /\ pc[r] = "L9"
    /\ stdout' = [stdout EXCEPT ![r] = Append(@, SumLine(Val(result[r]) + clock))]
    /\ pc' = [pc EXCEPT ![r] = "L23"]
    /\ UNCHANGED <<name, result, start_time, end_time, i, exitcode, exc,
                   clock, reads, calls, addlog>>
SimplePrint(r) ==
    /\ pc[r] = "L9"
    /\ stdout' = [stdout EXCEPT ![r] = Append(@, SumLine(Val(result[r])))]
    /\ pc' = [pc EXCEPT ![r] = "L23"]
    /\ UNCHANGED <<name, result, start_time, end_time, i, exitcode, exc,
                   clock, reads, calls, addlog>>

\* line 23: performance()
CallPerformance(r) ==
    /\ pc[r] = "L23"
    /\ calls' = [calls EXCEPT ![r].performance = @ + 1]
    /\ pc' = [pc EXCEPT ![r] = "L12"]
    /\ UNCHANGED <<name, result, start_time, end_time, i, stdout, exitcode,
                   exc, clock, reads, addlog>>

\* line 12: start_time = time.time()
ReadStart(r) ==
    /\ pc[r] = "L12"
    /\ start_time' = [start_time EXCEPT ![r] = Some(Time)]
    /\ reads' = [reads EXCEPT ![r] = @ + 1]
    /\ pc' = [pc EXCEPT ![r] = "L13"]
    /\ UNCHANGED <<name, result, end_time, i, stdout, exitcode, exc, clock,
                   calls, addlog>>

\* lines 13-14: for i in range(10000000): pass
\* One step runs the next Stride iterations of the empty body, or the
\* iterations that remain when fewer than Stride are left.
\* (variant: the clock is read inside the loop)
ForIter_timed(r) ==
    /\ pc[r] = "L13"
    /\ i[r] < LoopCount
    /\ i' = [i EXCEPT ![r] = @ + Min(Stride, LoopCount - @)]
    /\ end_time' = [end_time EXCEPT ![r] = Some(Time)]
    /\ reads' = [reads EXCEPT ![r] = @ + 1]
    /\ UNCHANGED <<name, pc, result, start_time, stdout, exitcode, exc,
                   clock, calls, addlog>>
ForIter(r) ==
    /\ pc[r] = "L13"
    /\ i[r] < LoopCount
    /\ i' = [i EXCEPT ![r] = @ + Min(Stride, LoopCount - @)]
    /\ UNCHANGED <<name, pc, result, start_time, end_time, stdout, exitcode,
                   exc, clock, reads, calls, addlog>>

\* line 13: range(10000000) is exhausted, the loop ends
ForExit(r) ==
    /\ pc[r] = "L13"
    /\ i[r] >= LoopCount
    /\ pc' = [pc EXCEPT ![r] = "L15"]
    /\ UNCHANGED <<name, result, start_time, end_time, i, stdout, exitcode,
                   exc, clock, reads, calls, addlog>>

\* line 15: end_time = time.time()
ReadEnd(r) ==
    /\ pc[r] = "L15"
    /\ end_time' = [end_time EXCEPT ![r] = Some(Time)]
    /\ reads' = [reads EXCEPT ![r] = @ + 1]
    /\ pc' = [pc EXCEPT ![r] = "L16"]
    /\ UNCHANGED <<name, result, start_time, i, stdout, exitcode, exc,
                   clock, calls, addlog>>

\* line 16: print(<label>, end_time - start_time, <unit>); performance
\* returns and the module body is at its end
\* (variant: a zero duration is not reported)
PerformancePrint_nonzero(r) ==
    /\ pc[r] = "L16"
    /\ stdout' = [stdout EXCEPT ![r] =
                     IF Val(end_time[r]) # Val(start_time[r])
                     THEN Append(@, TimeLine(Val(start_time[r]), Val(end_time[r])))
                     ELSE @]
    /\ pc' = [pc EXCEPT ![r] = "end"]
    /\ UNCHANGED <<name, result, start_time, end_time, i, exitcode, exc,
                   clock, reads, calls, addlog>>
PerformancePrint(r) ==
    /\ pc[r] = "L16"
    /\ stdout' = [stdout EXCEPT ![r] =
                     Append(@, TimeLine(Val(start_time[r]), Val(end_time[r])))]
    /\ pc' = [pc EXCEPT ![r] = "end"]
    /\ UNCHANGED <<name, result, start_time, end_time, i, exitcode, exc,
                   clock, reads, calls, addlog>>

\* end of file: the interpreter exits with status 0
Exit(r) ==
    /\ pc[r] = "end"
    /\ exitcode' = [exitcode EXCEPT ![r] = Some(ExitOK)]
    /\ pc' = [pc EXCEPT ![r] = "done"]
    /\ UNCHANGED <<name, result, start_time, end_time, i, stdout, exc,
                   clock, reads, calls, addlog>>

\* The importing program calls add(a, b) of the imported module.
CallAdd(r) ==
    /\ pc[r] = "imported"
    /\ \E a \in Ints, b \in Ints :
          addlog' = [addlog EXCEPT ![r] = <<a, b, add(a, b)>>]
    /\ UNCHANGED <<name, pc, result, start_time, end_time, i, stdout,
                   exitcode, exc, clock, reads, calls>>

\* ------------------------------------------------------------ environment
\* The wall clock advances.
Tick ==
    /\ clock < MaxClock
    /\ clock' = clock + 1
    /\ UNCHANGED <<name, pc, result, start_time, end_time, i, stdout,
                   exitcode, exc, reads, calls, addlog>>

\* The wall clock is set back (settimeofday, an NTP step): time.time()
\* reads the adjustable system clock, not a monotonic one.
SetBack ==
    /\ \E t \in Clock : t < clock /\ clock' = t
    /\ UNCHANGED <<name, pc, result, start_time, end_time, i, stdout,
                   exitcode, exc, reads, calls, addlog>>

\* Lines of performance() and of the whole main program
PerformanceLines == {"L12", "L13", "L15", "L16"}
MainLines == {"L18", "L20", "L8", "L9", "L23", "end"} \cup PerformanceLines

\* time.time() raises OSError (the clock is unavailable), lines 12 and 15
ClockFail(r) ==
    /\ pc[r] \in {"L12", "L15"}
    /\ exc' = [exc EXCEPT ![r] = <<"OSError", pc[r]>>]
    /\ reads' = [reads EXCEPT ![r] = @ + 1]
    /\ pc' = [pc EXCEPT ![r] = "raise"]
    /\ UNCHANGED <<name, result, start_time, end_time, i, stdout, exitcode,
                   clock, calls, addlog>>

\* SIGINT arrives: KeyboardInterrupt is raised at the line about to run
Interrupt(r) ==
    /\ name[r] = "__main__"
    /\ pc[r] \in MainLines
    /\ exc' = [exc EXCEPT ![r] = <<"KeyboardInterrupt", pc[r]>>]
    /\ pc' = [pc EXCEPT ![r] = "raise"]
    /\ UNCHANGED <<name, result, start_time, end_time, i, stdout, exitcode,
                   clock, reads, calls, addlog>>

\* No try statement encloses any line: the exception leaves every frame
\* and the interpreter ends the process with a non-zero status.
\* (variant: the exception is swallowed, exit status 0)
Unhandled_swallow(r) ==
    /\ pc[r] = "raise"
    /\ exitcode' = [exitcode EXCEPT ![r] = Some(ExitOK)]
    /\ pc' = [pc EXCEPT ![r] = "done"]
    /\ UNCHANGED <<name, result, start_time, end_time, i, stdout, exc,
                   clock, reads, calls, addlog>>
Unhandled(r) ==
    /\ pc[r] = "raise"
    /\ exitcode' = [exitcode EXCEPT ![r] =
          Some(IF exc[r][1] = "KeyboardInterrupt" THEN ExitSigint ELSE ExitException)]
    /\ pc' = [pc EXCEPT ![r] = "done"]
    /\ UNCHANGED <<name, result, start_time, end_time, i, stdout, exc,
                   clock, reads, calls, addlog>>

\* --------------------------------------------------------- specifications
Step(r) ==
    \/ Guard(r)
    \/ CallSimple(r)
    \/ SimpleAdd(r)
    \/ SimplePrint(r)
    \/ CallPerformance(r)
    \/ ReadStart(r)
    \/ ForIter(r)
    \/ ForExit(r)
    \/ ReadEnd(r)
    \/ PerformancePrint(r)
    \/ Exit(r)
    \/ CallAdd(r)

Fault(r) ==
    \/ ClockFail(r)
    \/ Interrupt(r)
    \/ Unhandled(r)

\* Normal operation: the clock is the only thing the environment varies.
Next ==
    \/ \E r \in Runs : Step(r)
    \/ Tick
    \/ SetBack

Spec == Init /\ [][Next]_vars

\* Operation with environmental faults: a failing clock read, an interrupt.
FaultNext ==
    \/ \E r \in Runs : Step(r)
    \/ \E r \in Runs : Fault(r)
    \/ Tick
    \/ SetBack

FaultSpec == Init /\ [][FaultNext]_vars

\* ----------------------------------------------------------------- claims
IsMain(r) == name[r] = "__main__"
ExitedOK(r) == exitcode[r] = Some(ExitOK)
\* simple() has been called and has returned
SimpleDone(r) ==
    /\ calls[r].simple = 1
    /\ pc[r] \notin {"L8", "L9"}
    /\ exc[r] # None => exc[r][2] \notin {"L8", "L9"}
\* the state of one execution
RunState(r) ==
    <<name[r], pc[r], result[r], start_time[r], end_time[r], i[r], stdout[r],
      exitcode[r], exc[r], reads[r], calls[r], addlog[r]>>

\* The integer sum by counting: b successors (or predecessors) of a.
RECURSIVE RefSum(_, _)
RefSum(a, b) ==
    IF b = 0 THEN a
    ELSE IF b > 0 THEN RefSum(a + 1, b - 1) ELSE RefSum(a - 1, b + 1)

\* C1: every call add(a, b), by simple() or by an importing program with
\* any operands (negative, zero, positive), returns the integer sum of a and
\* b; add(3, 4) returns 7.
C1_AddIsSum ==
    \A r \in Runs : addlog[r] # None =>
        /\ addlog[r][3] = RefSum(addlog[r][1], addlog[r][2])
        /\ (addlog[r][1] = 3 /\ addlog[r][2] = 4) => addlog[r][3] = 7

C1_Witness ==
    /\ addlog[1] = <<3, 4, 7>>
    /\ addlog[2] # None /\ addlog[2][1] < 0 /\ addlog[2][2] = 0

\* C2: whenever performance() has read both timestamps, the end timestamp
\* is greater than or equal to the start timestamp.
C2_EndNotBeforeStart ==
    \A r \in Runs : end_time[r] # None =>
        Val(end_time[r]) >= Val(start_time[r])

\* C3: the start timestamp is read before the first iteration, the loop
\* body runs exactly 10,000,000 times before the loop is left, the end
\* timestamp is read only after the last iteration, and the clock is read
\* twice in all, never while the loop runs.
C3_LoopAndReads ==
    \A r \in Runs :
        /\ i[r] <= 10000000
        /\ i[r] > 0 => start_time[r] # None
        /\ pc[r] = "L13" => reads[r] = 1 /\ end_time[r] = None
        /\ pc[r] \in {"L15", "L16", "end"} => i[r] = 10000000
        /\ end_time[r] # None => i[r] = 10000000
        /\ reads[r] <= 2
        /\ (IsMain(r) /\ ExitedOK(r)) => reads[r] = 2 /\ i[r] = 10000000

C3_Witness ==
    \E r \in Runs : IsMain(r) /\ ExitedOK(r) /\ i[r] = 10000000 /\ reads[r] = 2

\* C4: a main-program run that has ended has exit code 0 and has written
\* exactly two lines, the first with the sum 7, the second with an elapsed
\* value that is >= 0.
C4_MainRunOutput ==
    \A r \in Runs : (IsMain(r) /\ pc[r] = "done") =>
        /\ exitcode[r] = Some(0)
        /\ Len(stdout[r]) = 2
        /\ stdout[r][1] = "The sum is: 7"
        /\ \E d \in 0..MaxClock :
              stdout[r][2] = Joined(<<TimeLabel, IntStr(d) \o ".0", TimeUnit>>)

\* C5: once simple() has returned it has called add(3, 4) and written the
\* line "The sum is: 7", and nothing else, whatever the clock reads.
C5_SumLine ==
    \A r \in Runs : SimpleDone(r) =>
        /\ addlog[r] = <<3, 4, 7>>
        /\ Len(stdout[r]) >= 1
        /\ stdout[r][1] = "The sum is: 7"
        /\ calls[r].performance = 0 => Len(stdout[r]) = 1

C5_Witness ==
    \E r \in Runs :
        /\ SimpleDone(r) /\ calls[r].performance = 0
        /\ stdout[r] = <<"The sum is: 7">>
        /\ clock > 0

\* C6: performance() starts only after simple() has returned and written
\* the sum line; the sum line is line 1 and the execution-time line is
\* line 2; the execution-time line is made of performance()'s own two
\* timestamps only.
C6_Sequential ==
    \A r \in Runs :
        /\ (calls[r].performance > 0 \/ reads[r] > 0 \/ start_time[r] # None) =>
              /\ SimpleDone(r)
              /\ Len(stdout[r]) >= 1
              /\ stdout[r][1] = SumLine(7)
        /\ \A k \in 1..Len(stdout[r]) :
              /\ stdout[r][k] = SumLine(7) <=> k = 1
              /\ k = 2 => /\ end_time[r] # None
                          /\ stdout[r][k] =
                                TimeLine(Val(start_time[r]), Val(end_time[r]))
        /\ Len(stdout[r]) <= 2

C6_Witness ==
    \E r \in Runs :
        /\ Len(stdout[r]) = 2 /\ stdout[r][1] = SumLine(7)
        /\ stdout[r][2] = TimeLine(Val(start_time[r]), Val(end_time[r]))
        /\ Val(end_time[r]) > Val(start_time[r])

\* C7: a main-program run calls simple() and performance() once each; an
\* import calls neither: it writes no line, reads no clock and runs no
\* loop iteration.
C7_EntryGuard ==
    \A r \in Runs :
        /\ calls[r].simple <= 1 /\ calls[r].performance <= 1
        /\ (IsMain(r) /\ ExitedOK(r)) =>
              calls[r].simple = 1 /\ calls[r].performance = 1
        /\ ~IsMain(r) =>
              /\ calls[r].simple = 0 /\ calls[r].performance = 0
              /\ stdout[r] = <<>>
              /\ reads[r] = 0 /\ start_time[r] = None /\ end_time[r] = None
              /\ i[r] = 0
              /\ exitcode[r] = None

C7_Witness ==
    \E r, q \in Runs :
        /\ IsMain(r) /\ ExitedOK(r) /\ calls[r].simple = 1
        /\ ~IsMain(q) /\ pc[q] = "imported" /\ addlog[q] # None

\* C8: a failed clock read or an interrupt during performance() is never
\* caught: control does not come back to any line of the program, the
\* process ends with a non-zero exit code, standard output stays the one
\* sum line simple() wrote (no execution-time line), and nothing is read,
\* iterated or written again.
C8_FaultState ==
    \A r \in Runs : (exc[r] # None /\ exc[r][2] \in PerformanceLines) =>
        /\ pc[r] \in {"raise", "done"}
        /\ pc[r] = "done" => (exitcode[r] # None /\ Val(exitcode[r]) # 0)
        /\ stdout[r] = <<"The sum is: 7">>

C8_FaultStep ==
    \A r \in Runs : exc[r] # None =>
        /\ exc'[r] = exc[r]
        /\ stdout'[r] = stdout[r]
        /\ reads'[r] = reads[r] /\ i'[r] = i[r] /\ calls'[r] = calls[r]
        /\ start_time'[r] = start_time[r] /\ end_time'[r] = end_time[r]
        /\ pc'[r] \in {"raise", "done"}
        /\ pc[r] = "done" => (pc'[r] = "done" /\ exitcode'[r] = exitcode[r])

C9_WriteCounts ==
    \A r \in Runs :
        /\ Len(stdout[r]) <= 2
        /\ (SimpleDone(r) /\ pc[r] \in {"L23", "L12", "L13", "L15", "L16"}) =>
              Len(stdout[r]) = 1
        /\ Len(stdout[r]) = 2 => end_time[r] # None
        /\ (IsMain(r) /\ ExitedOK(r)) => Len(stdout[r]) = 2

C9_Frame ==
    \A r \in Runs :
        /\ addlog'[r] # addlog[r] =>
              /\ stdout' = stdout /\ clock' = clock
              /\ start_time' = start_time /\ end_time' = end_time
              /\ i' = i /\ reads' = reads /\ calls' = calls
              /\ exitcode' = exitcode /\ exc' = exc /\ name' = name
        /\ i'[r] # i[r] =>
              /\ pc[r] = "L13"
              /\ UNCHANGED <<name, pc, result, start_time, end_time, stdout,
                             exitcode, exc, clock, reads, calls, addlog>>
        /\ stdout'[r] # stdout[r] =>
              /\ Len(stdout'[r]) = Len(stdout[r]) + 1
              /\ SubSeq(stdout'[r], 1, Len(stdout[r])) = stdout[r]
              /\ \/ pc[r] = "L9"
                 \/ pc[r] = "L16" /\ end_time[r] # None /\ i[r] = LoopCount

C9_SideEffects == []C9_WriteCounts /\ [][C9_Frame]_vars

C9_Witness ==
    \E r \in Runs :
        /\ IsMain(r) /\ ExitedOK(r) /\ Len(stdout[r]) = 2
        /\ i[r] = LoopCount /\ addlog[r] # None

\* C10: two main-program runs that have both ended, whatever the clock read
\* in each, have the same exit code, the same number of lines, the same
\* first line, and second lines with the same label and unit around a
\* floating-point number; and a step of one run changes nothing of the
\* other run nor the clock.
C10_FloatText(d) == IntStr(d) \o ".0"
C10_IsTimeLine(line) ==
    \E d \in (0 - MaxClock)..MaxClock :
        line = Joined(<<TimeLabel, C10_FloatText(d), TimeUnit>>)

C10_SameShape ==
    \A r, q \in Runs :
        (IsMain(r) /\ IsMain(q) /\ pc[r] = "done" /\ pc[q] = "done") =>
            /\ exitcode[r] = exitcode[q]
            /\ Len(stdout[r]) = Len(stdout[q])
            /\ Len(stdout[r]) = 2
            /\ stdout[r][1] = stdout[q][1]
            /\ C10_IsTimeLine(stdout[r][2]) /\ C10_IsTimeLine(stdout[q][2])

C10_Isolated ==
    \A r \in Runs : RunState(r)' # RunState(r) =>
        /\ clock' = clock
        /\ \A q \in Runs \ {r} : RunState(q)' = RunState(q)

C10_RunsAgree == []C10_SameShape /\ [][C10_Isolated]_vars

C10_Witness ==
    /\ IsMain(1) /\ IsMain(2) /\ pc[1] = "done" /\ pc[2] = "done"
    /\ start_time[1] # start_time[2]
    /\ stdout[1][2] # stdout[2][2]
    /\ Val(end_time[1]) = Val(start_time[1])

=============================================================================
